---------------------------- MODULE Spec2Model ----------------------------
(***************************************************************************)
(* A model of package log's Options (src/options.go): the configuration    *)
(* record, its constructor NewOptions, Validate, AddFlags (with the        *)
(* pflag.FlagSet it registers into and later Set calls through that flag   *)
(* set) and String.                                                        *)
(*                                                                         *)
(* A Go string is a sequence of one-character strings, so that             *)
(* strings.ToLower, the %q verb, the JSON encoder and the flag parsers are *)
(* computed character by character.  Str renders such a sequence as one    *)
(* TLA+ string, for comparison with a literal.                             *)
(***************************************************************************)
EXTENDS Integers, Sequences, FiniteSets, TLC

VARIABLES
    o,          \* the Options record (the value behind the *Options pointer)
    fs,         \* the pflag.FlagSet: the set of flags registered so far
    ret,        \* the last operation called and what it returned
    validated,  \* history: Validate has returned no error for this record
    nassign,    \* history: number of direct field assignments made
    nset        \* history: number of fs.Set calls made

vars == <<o, fs, ret, validated, nassign, nset>>

-----------------------------------------------------------------------------
(* Bounds of the model.                                                    *)

MaxAssign == 1
MaxSet == 2

-----------------------------------------------------------------------------
(* Go strings.                                                             *)

RECURSIVE Str(_)
Str(s) == IF s = <<>> THEN "" ELSE Head(s) \o Str(Tail(s))

RECURSIVE Concat(_)
Concat(ss) == IF ss = <<>> THEN <<>> ELSE Head(ss) \o Concat(Tail(ss))

RECURSIVE Join(_, _)
Join(ss, sep) ==
    IF ss = <<>> THEN <<>>
    ELSE IF Len(ss) = 1 THEN ss[1]
    ELSE ss[1] \o sep \o Join(Tail(ss), sep)

HasPrefix(s, p) == Len(s) >= Len(p) /\ SubSeq(s, 1, Len(p)) = p

Contains(s, sub) ==
    \E i \in 0..(Len(s) - Len(sub)) : SubSeq(s, i + 1, i + Len(sub)) = sub

UpperLetters ==
    <<"A","B","C","D","E","F","G","H","I","J","K","L","M",
      "N","O","P","Q","R","S","T","U","V","W","X","Y","Z">>

LowerLetters ==
    <<"a","b","c","d","e","f","g","h","i","j","k","l","m",
      "n","o","p","q","r","s","t","u","v","w","x","y","z">>

ToLowerRune(c) ==
    IF \E i \in 1..26 : UpperLetters[i] = c
    THEN LowerLetters[CHOOSE i \in 1..26 : UpperLetters[i] = c]
    ELSE c

\* strings.ToLower / bytes.ToLower
ToLower(s) == [i \in 1..Len(s) |-> ToLowerRune(s[i])]

\* One character as the %q verb (strconv.Quote) writes it inside the quotes.
QuoteRune(c) ==
    CASE c = "\"" -> <<"\\", "\"">>
      [] c = "\\" -> <<"\\", "\\">>
      [] c = "\n" -> <<"\\", "n">>
      [] OTHER    -> <<c>>

\* fmt's %q: the string as a double-quoted Go literal, specials escaped.
Quote(s) == <<"\"">> \o Concat([i \in 1..Len(s) |-> QuoteRune(s[i])]) \o <<"\"">>

Digits == <<"0","1","2","3","4","5","6","7","8","9">>

RECURSIVE NatToText(_)
NatToText(n) ==
    IF n < 10 THEN <<Digits[n + 1]>>
    ELSE NatToText(n \div 10) \o <<Digits[(n % 10) + 1]>>

\* strconv.Itoa / the JSON encoder's integer form
Itoa(n) == IF n < 0 THEN <<"-">> \o NatToText(-n) ELSE NatToText(n)

-----------------------------------------------------------------------------
(* The constants of the package.                                           *)

flagLevel             == <<"l","o","g",".","l","e","v","e","l">>
flagFormat            == <<"l","o","g",".","f","o","r","m","a","t">>
flagEnableColor       == <<"l","o","g",".","e","n","a","b","l","e","-","c","o","l","o","r">>
flagEnableCaller      == <<"l","o","g",".","e","n","a","b","l","e","-","c","a","l","l","e","r">>
flagOutputPaths       == <<"l","o","g",".","o","u","t","p","u","t","-","p","a","t","h","s">>
flagErrorOutputPaths  == <<"l","o","g",".","e","r","r","o","r","-","o","u","t","p","u","t","-","p","a","t","h","s">>
flagDevelopment       == <<"l","o","g",".","d","e","v","e","l","o","p","m","e","n","t">>
flagName              == <<"l","o","g",".","n","a","m","e">>
flagDisableStacktrace == <<"l","o","g",".","d","i","s","a","b","l","e","-","s","t","a","c","k","t","r","a","c","e">>
flagMaxSizeInMB       == <<"l","o","g",".","m","a","x","-","s","i","z","e","-","m","b">>
flagMaxAgeInDays      == <<"l","o","g",".","m","a","x","-","a","g","e","-","d","a","y","s">>

consoleFormat == <<"c","o","n","s","o","l","e">>
jsonFormat    == <<"j","s","o","n">>

\* The fields of Options in declaration order, each with its json tag.
Fields ==
    << [field |-> "Level",             tag |-> <<"l","e","v","e","l">>],
       [field |-> "Format",            tag |-> <<"f","o","r","m","a","t">>],
       [field |-> "EnableColor",       tag |-> <<"e","n","a","b","l","e","-","c","o","l","o","r">>],
       [field |-> "EnableCaller",      tag |-> <<"e","n","a","b","l","e","-","c","a","l","l","e","r">>],
       [field |-> "OutputPaths",       tag |-> <<"o","u","t","p","u","t","-","p","a","t","h","s">>],
       [field |-> "ErrorOutputPaths",  tag |-> <<"e","r","r","o","r","-","o","u","t","p","u","t","-","p","a","t","h","s">>],
       [field |-> "DisableStacktrace", tag |-> <<"d","i","s","a","b","l","e","-","s","t","a","c","k","t","r","a","c","e">>],
       [field |-> "Development",       tag |-> <<"d","e","v","e","l","o","p","m","e","n","t">>],
       [field |-> "Name",              tag |-> <<"n","a","m","e">>],
       [field |-> "MaxSizeInMB",       tag |-> <<"m","a","x","-","s","i","z","e","-","i","n","-","m","b">>],
       [field |-> "MaxAgeInDays",      tag |-> <<"m","a","x","-","a","g","e","-","i","n","-","d","a","y","s">>] >>

FieldNames == {Fields[i].field : i \in 1..Len(Fields)}

StringFields == {"Level", "Format", "Name"}
BoolFields   == {"EnableColor", "EnableCaller", "DisableStacktrace", "Development"}
SliceFields  == {"OutputPaths", "ErrorOutputPaths"}
IntFields    == {"MaxSizeInMB", "MaxAgeInDays"}

\* zapcore.InfoLevel.String()
InfoLevelString == <<"i","n","f","o">>

-----------------------------------------------------------------------------
(* NewOptions and Validate.                                                *)

\* A variant of NewOptions: the default format is the "plain" of the flag's
\* usage text.
NewOptionsPlainFormat ==
    [ Level             |-> InfoLevelString,
      Format            |-> <<"p","l","a","i","n">>,
      EnableColor       |-> FALSE,
      EnableCaller      |-> FALSE,
      OutputPaths       |-> << <<"s","t","d","o","u","t">> >>,
      ErrorOutputPaths  |-> << <<"s","t","d","e","r","r">> >>,
      DisableStacktrace |-> FALSE,
      Development       |-> FALSE,
      Name              |-> <<>>,
      MaxSizeInMB       |-> 0,
      MaxAgeInDays      |-> 0 ]

NewOptions ==
    [ Level             |-> InfoLevelString,
      Format            |-> consoleFormat,
      EnableColor       |-> FALSE,
      EnableCaller      |-> FALSE,
      OutputPaths       |-> << <<"s","t","d","o","u","t">> >>,
      ErrorOutputPaths  |-> << <<"s","t","d","e","r","r">> >>,
      DisableStacktrace |-> FALSE,
      Development       |-> FALSE,
      Name              |-> <<>>,
      MaxSizeInMB       |-> 0,
      MaxAgeInDays      |-> 0 ]

\* zapcore's Level.unmarshalText: the switch over the exact spellings.
unmarshalText(text) ==
    text \in { <<"d","e","b","u","g">>,     <<"D","E","B","U","G">>,
               <<"i","n","f","o">>,         <<"I","N","F","O">>,      <<>>,
               <<"w","a","r","n">>,         <<"W","A","R","N">>,
               <<"e","r","r","o","r">>,     <<"E","R","R","O","R">>,
               <<"d","p","a","n","i","c">>, <<"D","P","A","N","I","C">>,
               <<"p","a","n","i","c">>,     <<"P","A","N","I","C">>,
               <<"f","a","t","a","l">>,     <<"F","A","T","A","L">> }

unrecognizedLevel == <<"u","n","r","e","c","o","g","n","i","z","e","d"," ","l","e","v","e","l",":"," ">>

\* zapLevel.UnmarshalText([]byte(o.Level)): the errors it returns (none, or one).
UnmarshalText(text) ==
    IF unmarshalText(text) \/ unmarshalText(ToLower(text))
    THEN <<>>
    ELSE << unrecognizedLevel \o Quote(text) >>

notAValidLogFormat == <<"n","o","t"," ","a"," ","v","a","l","i","d"," ","l","o","g"," ","f","o","r","m","a","t",":"," ">>

\* fmt.Errorf("not a valid log format: %q", o.Format)
FormatError(value) == notAValidLogFormat \o Quote(value)

\* Variants of Validate.  The first returns at the first error.
ValidateShortCircuit(opts) ==
    LET levelErrs  == UnmarshalText(opts.Level)
        format     == ToLower(opts.Format)
        formatErrs == IF format # consoleFormat /\ format # jsonFormat
                      THEN << FormatError(opts.Format) >>
                      ELSE <<>>
    IN  [o |-> opts, errs |-> IF levelErrs # <<>> THEN levelErrs ELSE formatErrs]

\* This one reports the lowered format instead of the field.
ValidateEchoesLowered(opts) ==
    LET levelErrs  == UnmarshalText(opts.Level)
        format     == ToLower(opts.Format)
        formatErrs == IF format # consoleFormat /\ format # jsonFormat
                      THEN << FormatError(format) >>
                      ELSE <<>>
    IN  [o |-> opts, errs |-> levelErrs \o formatErrs]

\* This one drops the error of UnmarshalText.
ValidateDropsLevelError(opts) ==
    LET format     == ToLower(opts.Format)
        formatErrs == IF format # consoleFormat /\ format # jsonFormat
                      THEN << FormatError(opts.Format) >>
                      ELSE <<>>
    IN  [o |-> opts, errs |-> formatErrs]

\* This one fills an empty Level with the default before checking it.
ValidateDefaultsEmptyLevel(opts) ==
    LET filled     == IF opts.Level = <<>>
                      THEN [opts EXCEPT !.Level = InfoLevelString]
                      ELSE opts
        levelErrs  == UnmarshalText(filled.Level)
        format     == ToLower(filled.Format)
        formatErrs == IF format # consoleFormat /\ format # jsonFormat
                      THEN << FormatError(filled.Format) >>
                      ELSE <<>>
    IN  [o |-> filled, errs |-> levelErrs \o formatErrs]

\* This one stores the lowered format back into the field.
ValidateNormalizesFormat(opts) ==
    LET levelErrs  == UnmarshalText(opts.Level)
        format     == ToLower(opts.Format)
        formatErrs == IF format # consoleFormat /\ format # jsonFormat
                      THEN << FormatError(opts.Format) >>
                      ELSE <<>>
    IN  [o |-> [opts EXCEPT !.Format = format], errs |-> levelErrs \o formatErrs]

\* (o *Options) Validate() []error.  The receiver is a pointer: the result
\* holds the record as the call leaves it and the errors returned.
Validate(opts) ==
    LET levelErrs  == UnmarshalText(opts.Level)
        format     == ToLower(opts.Format)
        formatErrs == IF format # consoleFormat /\ format # jsonFormat
                      THEN << FormatError(opts.Format) >>
                      ELSE <<>>
    IN  [o |-> opts, errs |-> levelErrs \o formatErrs]

-----------------------------------------------------------------------------
(* The pflag.FlagSet that AddFlags registers into.  A flag is              *)
(* [name, kind, field, def, changed]: field is the Options field its value *)
(* points to, def is Flag.DefValue (the default rendered as text), changed *)
(* is Flag.Changed.                                                        *)

FormatBool(b) == IF b THEN <<"t","r","u","e">> ELSE <<"f","a","l","s","e">>

\* Value.String() of each flag kind.  A string slice is written as CSV in
\* brackets; the paths of the model hold no comma, quote or line break, so
\* that no CSV field is quoted.
ValueString(kind, value) ==
    CASE kind = "string"      -> value
      [] kind = "bool"        -> FormatBool(value)
      [] kind = "int"         -> Itoa(value)
      [] kind = "stringSlice" -> <<"[">> \o Join(value, <<",">>) \o <<"]">>

\* fs.StringVar / BoolVar / IntVar / StringSliceVar(p, name, value, usage):
\* the new value object stores value through p and the flag is added with
\* DefValue = value's text.
Var(st, kind, field, name, value) ==
    [ o  |-> [st.o EXCEPT ![field] = value],
      fs |-> st.fs \cup { [name |-> name, kind |-> kind, field |-> field,
                           def |-> ValueString(kind, value), changed |-> FALSE] } ]

\* Variants of the registrations.  In the first the log.format flag is bound
\* to Level, as a copied line would be.
RegistrationsCopyPaste ==
    << [kind |-> "string",      field |-> "Level",             name |-> flagLevel],
       [kind |-> "string",      field |-> "Level",             name |-> flagFormat],
       [kind |-> "bool",        field |-> "EnableColor",       name |-> flagEnableColor],
       [kind |-> "bool",        field |-> "EnableCaller",      name |-> flagEnableCaller],
       [kind |-> "stringSlice", field |-> "OutputPaths",       name |-> flagOutputPaths],
       [kind |-> "stringSlice", field |-> "ErrorOutputPaths",  name |-> flagErrorOutputPaths],
       [kind |-> "bool",        field |-> "Development",       name |-> flagDevelopment],
       [kind |-> "string",      field |-> "Name",              name |-> flagName],
       [kind |-> "bool",        field |-> "DisableStacktrace", name |-> flagDisableStacktrace],
       [kind |-> "int",         field |-> "MaxSizeInMB",       name |-> flagMaxSizeInMB],
       [kind |-> "int",         field |-> "MaxAgeInDays",      name |-> flagMaxAgeInDays] >>

\* In the second the registration of log.name is missing.
RegistrationsWithoutName ==
    << [kind |-> "string",      field |-> "Level",             name |-> flagLevel],
       [kind |-> "string",      field |-> "Format",            name |-> flagFormat],
       [kind |-> "bool",        field |-> "EnableColor",       name |-> flagEnableColor],
       [kind |-> "bool",        field |-> "EnableCaller",      name |-> flagEnableCaller],
       [kind |-> "stringSlice", field |-> "OutputPaths",       name |-> flagOutputPaths],
       [kind |-> "stringSlice", field |-> "ErrorOutputPaths",  name |-> flagErrorOutputPaths],
       [kind |-> "bool",        field |-> "Development",       name |-> flagDevelopment],
       [kind |-> "bool",        field |-> "DisableStacktrace", name |-> flagDisableStacktrace],
       [kind |-> "int",         field |-> "MaxSizeInMB",       name |-> flagMaxSizeInMB],
       [kind |-> "int",         field |-> "MaxAgeInDays",      name |-> flagMaxAgeInDays] >>

\* The registrations AddFlags makes, in order: the kind of flag, the field
\* whose address and current value are passed, and the flag's name.
Registrations ==
    << [kind |-> "string",      field |-> "Level",             name |-> flagLevel],
       [kind |-> "string",      field |-> "Format",            name |-> flagFormat],
       [kind |-> "bool",        field |-> "EnableColor",       name |-> flagEnableColor],
       [kind |-> "bool",        field |-> "EnableCaller",      name |-> flagEnableCaller],
       [kind |-> "stringSlice", field |-> "OutputPaths",       name |-> flagOutputPaths],
       [kind |-> "stringSlice", field |-> "ErrorOutputPaths",  name |-> flagErrorOutputPaths],
       [kind |-> "bool",        field |-> "Development",       name |-> flagDevelopment],
       [kind |-> "string",      field |-> "Name",              name |-> flagName],
       [kind |-> "bool",        field |-> "DisableStacktrace", name |-> flagDisableStacktrace],
       [kind |-> "int",         field |-> "MaxSizeInMB",       name |-> flagMaxSizeInMB],
       [kind |-> "int",         field |-> "MaxAgeInDays",      name |-> flagMaxAgeInDays] >>

\* A variant of the default: the constructor's value of the field.
DefaultArgOfConstructor(opts, field) == NewOptions[field]

\* The default handed to a registration: the field's current value.
DefaultArg(opts, field) == opts[field]

RECURSIVE RegisterAll(_, _)
RegisterAll(st, regs) ==
    IF regs = <<>> THEN st
    ELSE LET r == Head(regs)
         IN  RegisterAll(Var(st, r.kind, r.field, r.name, DefaultArg(st.o, r.field)),
                         Tail(regs))

\* (o *Options) AddFlags(fs *pflag.FlagSet)
AddFlags(opts, flags) == RegisterAll([o |-> opts, fs |-> flags], Registrations)

\* strconv.ParseBool
ParseBool(text) ==
    IF text \in { <<"1">>, <<"t">>, <<"T">>, <<"T","R","U","E">>,
                  <<"t","r","u","e">>, <<"T","r","u","e">> }
    THEN [val |-> TRUE, err |-> FALSE]
    ELSE IF text \in { <<"0">>, <<"f">>, <<"F">>, <<"F","A","L","S","E">>,
                       <<"f","a","l","s","e">>, <<"F","a","l","s","e">> }
    THEN [val |-> FALSE, err |-> FALSE]
    ELSE [val |-> FALSE, err |-> TRUE]

DigitValue(c) == (CHOOSE i \in 1..10 : Digits[i] = c) - 1

IsDigit(c) == \E i \in 1..10 : Digits[i] = c

RECURSIVE TextToNat(_)
TextToNat(s) ==
    IF s = <<>> THEN 0
    ELSE 10 * TextToNat(SubSeq(s, 1, Len(s) - 1)) + DigitValue(s[Len(s)])

\* strconv.ParseInt(text, 0, 64) on the texts the model passes: a decimal
\* with an optional sign and no leading zero, or a text that is no number in
\* any base (a syntax error, which yields 0).
ParseInt(text) ==
    LET signed == text # <<>> /\ text[1] \in {"+", "-"}
        digits == IF signed THEN Tail(text) ELSE text
        plain  == /\ digits # <<>>
                  /\ \A i \in 1..Len(digits) : IsDigit(digits[i])
                  /\ (Len(digits) > 1 => digits[1] # "0")
    IN  IF ~plain THEN [val |-> 0, err |-> TRUE]
        ELSE [val |-> IF signed /\ text[1] = "-" THEN -TextToNat(digits)
                      ELSE TextToNat(digits),
              err |-> FALSE]

RECURSIVE Split(_, _)
Split(s, sep) ==
    IF \E i \in 1..Len(s) : s[i] = sep
    THEN LET i == CHOOSE k \in 1..Len(s) :
                      s[k] = sep /\ \A j \in 1..(k - 1) : s[j] # sep
         IN  <<SubSeq(s, 1, i - 1)>> \o Split(SubSeq(s, i + 1, Len(s)), sep)
    ELSE <<s>>

\* pflag's readAsCSV on a text without quotes or line breaks.
readAsCSV(text) == IF text = <<>> THEN <<>> ELSE Split(text, ",")

\* Value.Set(text) of each flag kind, on the field the value points to.
\* A bool or int value stores the parse result even when the parse fails;
\* a string slice is replaced by the first Set and appended to by later ones.
ValueSet(flag, old, text) ==
    CASE flag.kind = "string" -> [val |-> text, err |-> FALSE]
      [] flag.kind = "bool"   -> ParseBool(text)
      [] flag.kind = "int"    -> ParseInt(text)
      [] flag.kind = "stringSlice" ->
            [val |-> IF flag.changed THEN old \o readAsCSV(text) ELSE readAsCSV(text),
             err |-> FALSE]

\* fs.Set(name, text): the record, the flag set and whether an error returns.
Set(opts, flags, name, text) ==
    IF ~\E f \in flags : f.name = name
    THEN [o |-> opts, fs |-> flags, err |-> TRUE]
    ELSE LET flag == CHOOSE f \in flags : f.name = name
             r    == ValueSet(flag, opts[flag.field], text)
         IN  [ o   |-> [opts EXCEPT ![flag.field] = r.val],
               fs  |-> IF r.err THEN flags
                       ELSE (flags \ {flag}) \cup {[flag EXCEPT !.changed = TRUE]},
               err |-> r.err ]

-----------------------------------------------------------------------------
(* String: encoding/json's Marshal of the record.                          *)

\* The Go type of each field of Options.
TypeOf(field) ==
    CASE field \in StringFields -> "string"
      [] field \in BoolFields   -> "bool"
      [] field \in SliceFields  -> "stringSlice"
      [] field \in IntFields    -> "int"

\* One character inside a JSON string, as json.Marshal writes it (HTML
\* characters are escaped by default).
JSONRune(c) ==
    CASE c = "\"" -> <<"\\", "\"">>
      [] c = "\\" -> <<"\\", "\\">>
      [] c = "\n" -> <<"\\", "n">>
      [] c = "<"  -> <<"\\", "u", "0", "0", "3", "c">>
      [] c = ">"  -> <<"\\", "u", "0", "0", "3", "e">>
      [] c = "&"  -> <<"\\", "u", "0", "0", "2", "6">>
      [] OTHER    -> <<c>>

JSONString(s) ==
    <<"\"">> \o Concat([i \in 1..Len(s) |-> JSONRune(s[i])]) \o <<"\"">>

JSONValue(type, value) ==
    CASE type = "string"      -> JSONString(value)
      [] type = "bool"        -> FormatBool(value)
      [] type = "int"         -> Itoa(value)
      [] type = "stringSlice" ->
            <<"[">> \o Join([i \in 1..Len(value) |-> JSONString(value[i])], <<",">>)
                    \o <<"]">>

\* The key a field is written under: its json tag.
JSONKey(f) == f.tag

\* A variant of Marshal: fields holding their zero value are left out, as
\* with omitempty tags.
MarshalOmitEmpty(opts) ==
    LET isZero(f) == CASE TypeOf(f.field) = "bool" -> opts[f.field] = FALSE
                       [] TypeOf(f.field) = "int"  -> opts[f.field] = 0
                       [] OTHER                    -> Len(opts[f.field]) = 0
        keep(f)   == ~isZero(f)
        kept      == SelectSeq(Fields, keep)
    IN  <<"{">> \o Join([i \in 1..Len(kept) |->
                            JSONString(kept[i].tag) \o <<":">>
                                \o JSONValue(TypeOf(kept[i].field), opts[kept[i].field])],
                        <<",">>)
                \o <<"}">>

\* json.Marshal(o): the fields in declaration order.
Marshal(opts) ==
    <<"{">> \o Join([i \in 1..Len(Fields) |->
                        JSONString(JSONKey(Fields[i])) \o <<":">>
                            \o JSONValue(TypeOf(Fields[i].field), opts[Fields[i].field])],
                    <<",">>)
            \o <<"}">>

\* (o *Options) String() string: the record as the call leaves it and the
\* text returned.  Marshal of this struct cannot fail, so the dropped error
\* is always nil.
String(opts) == [o |-> opts, out |-> Marshal(opts)]

-----------------------------------------------------------------------------
(* The inputs of the model.                                                *)

FlagNames ==
    { flagLevel, flagFormat, flagEnableColor, flagEnableCaller, flagOutputPaths,
      flagErrorOutputPaths, flagDevelopment, flagName, flagDisableStacktrace,
      flagMaxSizeInMB, flagMaxAgeInDays }

\* The texts passed to fs.Set, per flag.
SetTexts(name) ==
    CASE name = flagLevel   -> { <<"n","o","p","e">>, <<>> }
      [] name = flagFormat  -> { <<"J","S","O","N">>, <<"X","M","L">> }
      [] name = flagName    -> { <<"a","<","b">> }
      [] name = flagEnableColor       -> { <<"t","r","u","e">> }
      [] name = flagEnableCaller      -> { <<"T">> }
      [] name = flagDevelopment       -> { <<"m","a","y","b","e">> }
      [] name = flagDisableStacktrace -> { <<"1">> }
      [] name = flagOutputPaths       -> { <<"a",",","b">>, <<"c">> }
      [] name = flagErrorOutputPaths  -> { <<>> }
      [] name = flagMaxSizeInMB       -> { <<"1","0","0">> }
      [] name = flagMaxAgeInDays      -> { <<"-","7">>, <<"x">> }

\* The values assigned to a field directly.
AssignValues(field) ==
    CASE field = "Level"       -> { <<"D","e","b","u","g">> }
      [] field = "Format"      -> { <<"p","l","a","i","n">> }
      [] field = "OutputPaths" -> { << <<"a",".","l","o","g">>, <<"s","t","d","o","u","t">> >> }
      [] OTHER                 -> {}

-----------------------------------------------------------------------------
(* The operations.                                                         *)

Init ==
    /\ o = NewOptions
    /\ fs = {}
    /\ ret = [op |-> "NewOptions"]
    /\ validated = FALSE
    /\ nassign = 0
    /\ nset = 0

\* opts := NewOptions(), with a new, empty flag set.
NewOptionsAct ==
    /\ o' = NewOptions
    /\ fs' = {}
    /\ ret' = [op |-> "NewOptions"]
    /\ validated' = FALSE
    /\ nassign' = 0
    /\ nset' = 0

\* opts.<Field> = value
AssignAct ==
    /\ nassign < MaxAssign
    /\ \E field \in FieldNames : \E value \in AssignValues(field) :
          /\ o' = [o EXCEPT ![field] = value]
          /\ ret' = [op |-> "Assign", field |-> field]
    /\ nassign' = nassign + 1
    /\ UNCHANGED <<fs, validated, nset>>

\* opts.AddFlags(fs); a second registration of a name panics in pflag.
AddFlagsAct ==
    /\ fs = {}
    /\ LET r == AddFlags(o, fs)
       IN  /\ o' = r.o
           /\ fs' = r.fs
    /\ ret' = [op |-> "AddFlags"]
    /\ UNCHANGED <<validated, nassign, nset>>

\* fs.Set(name, text)
SetAct ==
    /\ nset < MaxSet
    /\ \E name \in FlagNames : \E text \in SetTexts(name) :
          LET r == Set(o, fs, name, text)
          IN  /\ o' = r.o
              /\ fs' = r.fs
              /\ ret' = [op |-> "Set", name |-> name, text |-> text, err |-> r.err]
    /\ nset' = nset + 1
    /\ UNCHANGED <<validated, nassign>>

\* errs := opts.Validate()
ValidateAct ==
    /\ LET r == Validate(o)
       IN  /\ o' = r.o
           /\ ret' = [op |-> "Validate", errs |-> r.errs]
           /\ validated' = (validated \/ r.errs = <<>>)
    /\ UNCHANGED <<fs, nassign, nset>>

\* s := opts.String()
StringAct ==
    /\ LET r == String(o)
       IN  /\ o' = r.o
           /\ ret' = [op |-> "String", out |-> r.out]
    /\ UNCHANGED <<fs, validated, nassign, nset>>

Next ==
    \/ NewOptionsAct
    \/ AssignAct
    \/ AddFlagsAct
    \/ SetAct
    \/ ValidateAct
    \/ StringAct

Spec == Init /\ [][Next]_vars

-----------------------------------------------------------------------------
(* A second specification for Validate and String as functions of the      *)
(* record: the record starts with fields already assigned, drawn from the  *)
(* sets below, and only Validate and String are called.                    *)

ToUpperRune(c) ==
    IF \E i \in 1..26 : LowerLetters[i] = c
    THEN UpperLetters[CHOOSE i \in 1..26 : LowerLetters[i] = c]
    ELSE c

ToUpper(s) == [i \in 1..Len(s) |-> ToUpperRune(s[i])]

Capitalize(s) == [i \in 1..Len(s) |-> IF i = 1 THEN ToUpperRune(s[i]) ELSE s[i]]

\* The severity-level tokens, in lower case.
SeverityTokens ==
    { <<"d","e","b","u","g">>, <<"i","n","f","o">>, <<"w","a","r","n">>,
      <<"e","r","r","o","r">>, <<"d","p","a","n","i","c">>, <<"p","a","n","i","c">>,
      <<"f","a","t","a","l">> }

LevelInputs ==
    SeverityTokens
      \cup { ToUpper(t) : t \in SeverityTokens }
      \cup { Capitalize(t) : t \in SeverityTokens }
      \cup { <<>>,
             <<"n","o","t","-","a","-","l","e","v","e","l">>,
             <<"w","a","r","n","i","n","g">>,
             <<"i","n","f","o"," ">>,
             <<"i","N","f","O">>,
             <<"t","r","a","c","e">>,
             <<"\"">> }

FormatInputs ==
    { consoleFormat, jsonFormat,
      <<"J","S","O","N">>, <<"J","s","o","n">>, <<"j","s","O","n">>,
      <<"C","o","n","s","o","l","e">>, <<"C","O","N","S","O","L","E">>,
      <<"X","M","L">>, <<"x","m","l">>, <<>>,
      <<"p","l","a","i","n">>, <<"j","s","o","n","x">>, <<" ","j","s","o","n">>,
      <<"a","\"","b">>, <<"C",":","\\","l","o","g">>, <<"t","e","x","t","\n">> }

\* Values of the fields Validate does not read, varied together.
OtherInputs ==
    { [name |-> <<>>, color |-> FALSE, paths |-> << <<"s","t","d","o","u","t">> >>,
       size |-> 0, age |-> 0],
      [name |-> <<"a","<","b",">","&","\"","c","\\">>, color |-> TRUE, paths |-> <<>>,
       size |-> 100, age |-> -7],
      [name |-> <<"t","k","e">>, color |-> FALSE,
       paths |-> << <<"b",".","l","o","g">>, <<"a",".","l","o","g">>, <<"b",".","l","o","g">> >>,
       size |-> 12, age |-> 30] }

InitV ==
    /\ \E l \in LevelInputs : \E f \in FormatInputs : \E x \in OtherInputs :
          o = [NewOptions EXCEPT !.Level = l, !.Format = f, !.Name = x.name,
                                 !.EnableColor = x.color, !.OutputPaths = x.paths,
                                 !.MaxSizeInMB = x.size, !.MaxAgeInDays = x.age]
    /\ fs = {}
    /\ ret = [op |-> "Assign", field |-> "Format"]
    /\ validated = FALSE
    /\ nassign = 0
    /\ nset = 0

NextV ==
    \/ ValidateAct
    \/ StringAct

SpecV == InitV /\ [][NextV]_vars

-----------------------------------------------------------------------------
(* The properties.                                                         *)

IsLevelError(e)  == HasPrefix(e, unrecognizedLevel)
IsFormatError(e) == HasPrefix(e, notAValidLogFormat)

LevelErrors(errs)  == SelectSeq(errs, IsLevelError)
FormatErrors(errs) == SelectSeq(errs, IsFormatError)

\* s is "console" or "json" up to letter case.
MatchesFormat(s) == ToLower(s) \in { <<"c","o","n","s","o","l","e">>, <<"j","s","o","n">> }

\* s is one of the seven severity tokens up to letter case.
MatchesSeverity(s) == ToLower(s) \in SeverityTokens

\* s holds no character that %q writes as an escape.
NoEscape(s) == \A i \in 1..Len(s) : s[i] \notin {"\"", "\\", "\n"}

InDoubleQuotes(s) == <<"\"">> \o s \o <<"\"">>

\* C1: Validate, called on a record as NewOptions returned it (no field
\* assigned, no flag set), returns no error.
C1_DefaultsValid ==
    (ret.op = "Validate" /\ nassign = 0 /\ nset = 0) => ret.errs = <<>>

C1_Witness == ret.op = "Validate" /\ nassign = 0 /\ nset = 0 /\ o = NewOptions

\* C2: Validate checks both rules whatever the first one finds: it returns
\* one error per violated rule, the level error before the format error,
\* and nothing else.
C2_AllViolationsInOrder ==
    ret.op = "Validate" =>
        LET levelBad  == UnmarshalText(o.Level) # <<>>
            formatBad == ~MatchesFormat(o.Format)
            n         == (IF levelBad THEN 1 ELSE 0) + (IF formatBad THEN 1 ELSE 0)
        IN  /\ Len(ret.errs) = n
            /\ Len(LevelErrors(ret.errs)) = (IF levelBad THEN 1 ELSE 0)
            /\ Len(FormatErrors(ret.errs)) = (IF formatBad THEN 1 ELSE 0)
            /\ levelBad => IsLevelError(ret.errs[1])
            /\ formatBad => IsFormatError(ret.errs[n])

C2_Witness ==
    /\ ret.op = "Validate"
    /\ Len(ret.errs) = 2
    /\ IsLevelError(ret.errs[1])
    /\ IsFormatError(ret.errs[2])

C4_LevelErrorIffNotToken ==
    ret.op = "Validate" =>
        Len(LevelErrors(ret.errs)) = (IF MatchesSeverity(o.Level) THEN 0 ELSE 1)

\* C4 amended: Validate yields no level error when Level is one of the seven
\* tokens up to letter case or is the empty string (which parses as info),
\* and exactly one level error for every other Level.
C4_LevelErrorIffNotTokenNorEmpty ==
    ret.op = "Validate" =>
        Len(LevelErrors(ret.errs)) =
            (IF MatchesSeverity(o.Level) \/ o.Level = <<>> THEN 0 ELSE 1)

C4_Witness ==
    /\ ret.op = "Validate"
    /\ o.Level = <<"n","o","t","-","a","-","l","e","v","e","l">>
    /\ Len(LevelErrors(ret.errs)) = 1

\* C5: a call of Validate leaves every field of the record as it was, errors
\* or not, and a further call on the record it leaves returns the same
\* errors and again changes nothing.
C5_ValidatePure ==
    [][ ret'.op = "Validate" =>
            /\ o' = o
            /\ fs' = fs
            /\ Validate(o').errs = ret'.errs
            /\ Validate(o').o = o' ]_vars

C5_Witness == ret.op = "Validate" /\ ret.errs # <<>> /\ fs # {} /\ nset > 0

\* The documented external key of each field (the keys of the serialized form).
ExternalKey(field) ==
    CASE field = "Level"             -> "level"
      [] field = "Format"            -> "format"
      [] field = "EnableColor"       -> "enable-color"
      [] field = "EnableCaller"      -> "enable-caller"
      [] field = "OutputPaths"       -> "output-paths"
      [] field = "ErrorOutputPaths"  -> "error-output-paths"
      [] field = "DisableStacktrace" -> "disable-stacktrace"
      [] field = "Development"       -> "development"
      [] field = "Name"              -> "name"
      [] field = "MaxSizeInMB"       -> "max-size-in-mb"
      [] field = "MaxAgeInDays"      -> "max-age-in-days"

\* The documented flag of each field (the flag surface).
ExternalFlag(field) ==
    CASE field = "Level"             -> "log.level"
      [] field = "Format"            -> "log.format"
      [] field = "EnableColor"       -> "log.enable-color"
      [] field = "EnableCaller"      -> "log.enable-caller"
      [] field = "OutputPaths"       -> "log.output-paths"
      [] field = "ErrorOutputPaths"  -> "log.error-output-paths"
      [] field = "DisableStacktrace" -> "log.disable-stacktrace"
      [] field = "Development"       -> "log.development"
      [] field = "Name"              -> "log.name"
      [] field = "MaxSizeInMB"       -> "log.max-size-mb"
      [] field = "MaxAgeInDays"      -> "log.max-age-days"

\* The field a flag name stands for.
FieldOfFlag(name) == CHOOSE field \in FieldNames : ExternalFlag(field) = Str(name)

\* The value a text stands for, by the type of the field.
ParsedValue(type, text) ==
    CASE type = "string"      -> text
      [] type = "bool"        -> ParseBool(text).val
      [] type = "int"         -> ParseInt(text).val
      [] type = "stringSlice" -> readAsCSV(text)

\* C6: AddFlags changes no field of the record, whatever the fields hold at
\* that time, and registers for every field a flag whose default is the
\* text of the value the field holds then.
C6_AddFlagsKeepsRecord ==
    [][ (fs = {} /\ fs' # {}) =>
            /\ o' = o
            /\ \A field \in FieldNames :
                  \E f \in fs' :
                      /\ Str(f.name) = ExternalFlag(field)
                      /\ f.def = ValueString(TypeOf(field), o[field]) ]_vars

C6_Witness ==
    /\ ret.op = "AddFlags"
    /\ nassign > 0
    /\ o.Level # NewOptions.Level
    /\ \E f \in fs : f.name = flagLevel /\ f.def = o.Level /\ f.def # NewOptions.Level

\* C7 as stated: every successful Set of a registered flag leaves the value
\* of the text in the flag's field (for a list flag, the list of the text)
\* and leaves every other field as it was.
C7_SetStoresValue ==
    [][ (nset' = nset + 1 /\ ~ret'.err) =>
            \E field \in {FieldOfFlag(ret'.name)} :
                /\ o'[field] = ParsedValue(TypeOf(field), ret'.text)
                /\ \A g \in FieldNames \ {field} : o'[g] = o[g] ]_vars

\* C7 amended: a successful Set of a string, bool or int flag leaves the
\* value of the text in the flag's field; the first successful Set of a list
\* flag replaces the list by the list of the text, and every later Set of
\* that flag appends the list of the text to the field, in order; every
\* other field is left as it was.
C7_SetStoresOrAppends ==
    [][ (nset' = nset + 1 /\ ~ret'.err) =>
            \E field \in {FieldOfFlag(ret'.name)} :
                LET v      == ParsedValue(TypeOf(field), ret'.text)
                    before == \E f \in fs : f.name = ret'.name /\ f.changed
                IN  /\ o'[field] = IF TypeOf(field) = "stringSlice" /\ before
                                   THEN o[field] \o v
                                   ELSE v
                    /\ \A g \in FieldNames \ {field} : o'[g] = o[g] ]_vars

C7_Witness ==
    /\ ret.op = "Set"
    /\ ~ret.err
    /\ ret.name = flagOutputPaths
    /\ ret.text = <<"c">>
    /\ o.OutputPaths = << <<"a">>, <<"b">>, <<"c">> >>

\* C8 as stated: once AddFlags has run, every field has exactly one flag,
\* no flag stands for anything else, and each flag is named "log." followed
\* by the external key of its field.
C8_FlagNamedByKey ==
    fs # {} =>
        /\ Cardinality(fs) = Cardinality(FieldNames)
        /\ \A f \in fs : f.field \in FieldNames
        /\ \A field \in FieldNames :
              /\ Cardinality({f \in fs : f.field = field}) = 1
              /\ \A f \in fs : f.field = field =>
                    Str(f.name) = "log." \o ExternalKey(field)

\* C8 amended: once AddFlags has run, every field has exactly one flag and no
\* flag stands for anything else; the flag is named "log." followed by the
\* external key of its field, except that MaxSizeInMB (key max-size-in-mb)
\* has the flag log.max-size-mb and MaxAgeInDays (key max-age-in-days) has
\* the flag log.max-age-days.
C8_FlagNamedByKeyButTwo ==
    fs # {} =>
        /\ Cardinality(fs) = Cardinality(FieldNames)
        /\ \A f \in fs : f.field \in FieldNames
        /\ \A field \in FieldNames :
              /\ Cardinality({f \in fs : f.field = field}) = 1
              /\ \A f \in fs : f.field = field =>
                    Str(f.name) =
                        CASE field = "MaxSizeInMB"  -> "log.max-size-mb"
                          [] field = "MaxAgeInDays" -> "log.max-age-days"
                          [] OTHER -> "log." \o ExternalKey(field)

C8_Witness ==
    /\ ret.op = "AddFlags"
    /\ Cardinality(fs) = 11
    /\ \E f \in fs : f.field = "MaxSizeInMB" /\ Str(f.name) = "log.max-size-mb"

(* A reader of the JSON text String returns, written from the JSON grammar: *)
(* an object of string keys whose values are strings, booleans, integers   *)
(* or arrays of strings.  It yields the members in the order read.         *)

JSONUnescape(c) == IF c = "n" THEN "\n" ELSE c

JSONUnicode(hex) ==
    CASE hex = <<"0","0","3","c">> -> "<"
      [] hex = <<"0","0","3","e">> -> ">"
      [] hex = <<"0","0","2","6">> -> "&"
      [] OTHER -> "?"

\* The string whose first character is at i (after the opening quote).
RECURSIVE ReadChars(_, _, _)
ReadChars(s, i, acc) ==
    IF i > Len(s) THEN [val |-> acc, next |-> i]
    ELSE IF s[i] = "\"" THEN [val |-> acc, next |-> i + 1]
    ELSE IF s[i] = "\\" /\ i < Len(s) /\ s[i + 1] = "u"
         THEN ReadChars(s, i + 6, Append(acc, JSONUnicode(SubSeq(s, i + 2, i + 5))))
    ELSE IF s[i] = "\\" /\ i < Len(s)
         THEN ReadChars(s, i + 2, Append(acc, JSONUnescape(s[i + 1])))
    ELSE ReadChars(s, i + 1, Append(acc, s[i]))

\* The array of strings whose first element, or closing bracket, is at i.
RECURSIVE ReadArray(_, _, _)
ReadArray(s, i, acc) ==
    IF i > Len(s) \/ s[i] = "]" THEN [val |-> acc, next |-> i + 1]
    ELSE IF s[i] = "," THEN ReadArray(s, i + 1, acc)
    ELSE LET r == ReadChars(s, i + 1, <<>>)
         IN  ReadArray(s, r.next, Append(acc, r.val))

RECURSIVE NumberEnd(_, _)
NumberEnd(s, i) ==
    IF i <= Len(s) /\ (IsDigit(s[i]) \/ s[i] = "-") THEN NumberEnd(s, i + 1) ELSE i

ReadValue(s, i) ==
    CASE s[i] = "\"" -> ReadChars(s, i + 1, <<>>)
      [] s[i] = "["  -> ReadArray(s, i + 1, <<>>)
      [] s[i] = "t"  -> [val |-> TRUE, next |-> i + 4]
      [] s[i] = "f"  -> [val |-> FALSE, next |-> i + 5]
      [] OTHER       -> LET j == NumberEnd(s, i)
                        IN  [val |-> ParseInt(SubSeq(s, i, j - 1)).val, next |-> j]

\* The members after position i of an object: <<[key, val], ...>>.
RECURSIVE ReadMembers(_, _, _)
ReadMembers(s, i, acc) ==
    IF i >= Len(s) THEN acc
    ELSE IF s[i] = "," THEN ReadMembers(s, i + 1, acc)
    ELSE LET k == ReadChars(s, i + 1, <<>>)
             v == ReadValue(s, k.next + 1)
         IN  ReadMembers(s, v.next, Append(acc, [key |-> k.val, val |-> v.val]))

ReadObject(s) == ReadMembers(s, 2, <<>>)

IsObject(s) == Len(s) >= 2 /\ s[1] = "{" /\ s[Len(s)] = "}"

\* The members m are exactly one per field, each under the field's external
\* key and carrying the field's value in opts.
DescribesRecord(m, opts) ==
    /\ Len(m) = Cardinality(FieldNames)
    /\ \A field \in FieldNames :
          \E i \in 1..Len(m) :
              /\ Str(m[i].key) = ExternalKey(field)
              /\ m[i].val = opts[field]

\* C9: String returns a JSON object with exactly one member per field, under
\* the field's external key and carrying the field's value (the paths in
\* their order), and leaves the record as it was; for the record NewOptions
\* returns the text holds "format":"console" and "output-paths":["stdout"].
C9_StringIsJSONOfRecord ==
    [][ ret'.op = "String" =>
            /\ o' = o
            /\ IsObject(ret'.out)
            /\ \E m \in {ReadObject(ret'.out)} : DescribesRecord(m, o)
            /\ o = NewOptions =>
                  /\ Contains(ret'.out,
                        <<"\"","f","o","r","m","a","t","\"",":",
                          "\"","c","o","n","s","o","l","e","\"">>)
                  /\ Contains(ret'.out,
                        <<"\"","o","u","t","p","u","t","-","p","a","t","h","s","\"",":",
                          "[","\"","s","t","d","o","u","t","\"","]">>) ]_vars

C9_Witness ==
    /\ ret.op = "String"
    /\ o.OutputPaths = <<>>
    /\ o.MaxAgeInDays < 0
    /\ Contains(ret.out, <<"\"","m","a","x","-","a","g","e","-","i","n","-","d","a","y","s","\"",":","-","7">>)
    /\ Contains(ret.out, <<"\"","o","u","t","p","u","t","-","p","a","t","h","s","\"",":","[","]">>)

\* C10 as stated: once Validate has returned no error for a record, no later
\* AddFlags, Set through the flag set, Validate or String changes any of its
\* fields (NewOptions makes another record; assignments are not counted).
C10_ValidatedRecordFrozen ==
    [][ (validated /\ ret'.op \in {"AddFlags", "Set", "Validate", "String"}) =>
            o' = o ]_vars

\* C10 amended: once Validate has returned no error for a record, Validate,
\* String and AddFlags still change none of its fields (so it keeps passing
\* Validate as long as only these are called); a later Set through the flag
\* set or a later assignment still changes the record.
C10_ValidatedRecordKeptByReaders ==
    [][ (validated /\ ret'.op \in {"Validate", "String", "AddFlags"}) =>
            /\ o' = o
            /\ (ret.op = "Validate" /\ ret.errs = <<>>) => Validate(o').errs = <<>> ]_vars

C10_Witness ==
    /\ validated
    /\ ret.op = "Validate"
    /\ ret.errs # <<>>
    /\ nset > 0
====
